---------------------------- MODULE Spec2Model ----------------------------
(***************************************************************************)
(* Model of the world streaming engine of plane_game (src/src/main.rs):    *)
(* the chunk manager (manage_chunks), chunk construction (spawn_chunk and  *)
(* the content spawners), the deterministic key hashes, and the deferred   *)
(* command queue through which Bevy systems spawn and despawn entities.    *)
(*                                                                         *)
(* The player position is kept in whole metres (x, z).  The entities of    *)
(* the world are counted per kind and per chunk key they were spawned      *)
(* for.  32-bit and 64-bit integers are little-endian byte sequences,      *)
(* because the hashes rely on wrap-around.                                 *)
(***************************************************************************)
EXTENDS Integers, Sequences, FiniteSets, TLC

----------------------------------------------------------------------------
(* Program constants                                                       *)

CHUNK_SIZE == 1000
LOAD_RADIUS_CHUNKS == 8

(* A faulty variant of UNLOAD_RADIUS_CHUNKS: no margin over the load radius *)
UnloadAtLoadRadius == LOAD_RADIUS_CHUNKS

UNLOAD_RADIUS_CHUNKS == 12

TREES_PER_CHUNK_MIN == 5
TREES_PER_CHUNK_MAX == 10
METEOR_COUNT == 40
NUM_BUILDINGS == 8
SWARM_SIZE == 20

(* Bounds of the model.  On a flight the player stays in the chunks        *)
(* (0,0) .. (MaxEast,0).  A patrol drone outlives its chunk, so every      *)
(* reload of a patrol chunk adds one: a scan that would bring the live     *)
(* patrol drones of one key above MaxPatrolCopies is not taken.            *)
MaxEast == 5
MaxPatrolCopies == 2

(* The scans of manage_chunks that did not return early are counted up to  *)
(* MaxScansCounted.                                                        *)
MaxScansCounted == 3

(* The key hashes are probed for the keys (x, z) with x and z in           *)
(* -MaxProbe..MaxProbe.                                                    *)
MaxProbe == 16

(* Terrain meshes are built for the keys (x, z) with x and z in            *)
(* -MaxMeshKey..MaxMeshKey, and for the same window moved east to where    *)
(* chunk origins stop being exact in f32.                                  *)
MaxMeshKey == 3

(* Positions are mapped to keys for the chunks -MaxPosKey..MaxPosKey on    *)
(* each axis, at the first metre, the second metre and the last metre of   *)
(* each chunk.                                                             *)
MaxPosKey == 2

(* Content seeds are derived for the keys (x, z) with x and z in           *)
(* -MaxSeedKey..MaxSeedKey, two keys at a time.                            *)
MaxSeedKey == 2

(* Trees and rocks are placed for the keys (x, z) with x and z in          *)
(* -MaxPlacementKey..MaxPlacementKey.                                      *)
MaxPlacementKey == 6

(* The visibility pass is run with at most MaxTrees trees in the world.    *)
MaxTrees == 2

(* Keys of the round trip are taken up to MaxRoundTripKey around the       *)
(* origin and around FarKey.                                               *)
MaxRoundTripKey == 4

(* Combat is run with at most MaxDrones drones, on a track of positions    *)
(* 0..MaxTrack whose last position is beyond the despawn distance, and     *)
(* with frames of FrameSeconds seconds.                                    *)
MaxDrones == 3

MaxTrack == 2

FrameSeconds == 5

(* The player moves in strides of one chunk.                                *)
Stride == CHUNK_SIZE \div 2

----------------------------------------------------------------------------
(* Fixed-width integers as little-endian byte sequences                    *)

RECURSIVE XorBits(_, _, _)
XorBits(a, b, n) ==
    IF n = 0 THEN 0
    ELSE (((a % 2) + (b % 2)) % 2) + 2 * XorBits(a \div 2, b \div 2, n - 1)

(* ^ on two words of the same width *)
Xor(a, b) == [i \in DOMAIN a |-> XorBits(a[i], b[i], 8)]

(* An i32 value as its 4 two's-complement bytes. *)
I32Bytes(n) ==
    LET m == IF n >= 0 THEN n ELSE (n + 2147483647) + 1
        top == IF n >= 0 THEN 0 ELSE 128
    IN  << m % 256, (m \div 256) % 256, (m \div 65536) % 256,
           (m \div 16777216) + top >>

(* `as i64` of an i32: sign extension to 8 bytes. *)
I64Bytes(n) ==
    LET ext == IF n >= 0 THEN 0 ELSE 255
    IN  I32Bytes(n) \o << ext, ext, ext, ext >>

RECURSIVE ColumnSum(_, _, _, _)
ColumnSum(a, b, k, i) ==
    IF i > k THEN 0
    ELSE a[i] * b[k + 1 - i] + ColumnSum(a, b, k, i + 1)

RECURSIVE MulFrom(_, _, _, _)
MulFrom(a, b, k, carry) ==
    IF k > Len(a) THEN << >>
    ELSE LET t == ColumnSum(a, b, k, 1) + carry
         IN  << t % 256 >> \o MulFrom(a, b, k + 1, t \div 256)

(* wrapping_mul: the product reduced modulo 2^(8 * width) *)
WrappingMul(a, b) == MulFrom(a, b, 1, 0)

RECURSIVE AddFrom(_, _, _, _)
AddFrom(a, b, k, carry) ==
    IF k > Len(a) THEN << >>
    ELSE LET t == a[k] + b[k] + carry
         IN  << t % 256 >> \o AddFrom(a, b, k + 1, t \div 256)

(* wrapping_add: the sum reduced modulo 2^(8 * width) *)
WrappingAdd(a, b) == AddFrom(a, b, 1, 0)

(* wrapping_neg: the two's complement *)
WrappingNeg(a) ==
    WrappingAdd([i \in DOMAIN a |-> 255 - a[i]], << 1 >> \o [i \in 1..(Len(a) - 1) |-> 0])

I32_MAX == (2^30 - 1) * 2 + 1

I32_MIN == (0 - I32_MAX) - 1

(* The i32 value of 4 two's-complement bytes *)
FromI32Bytes(b) ==
    LET low == b[1] + 256 * b[2] + 65536 * b[3] + 16777216 * (b[4] % 128)
    IN  IF b[4] >= 128 THEN (low - I32_MAX) - 1 ELSE low

(* The i32 operators +, - and * on two i32 values: v is the result of a    *)
(* build without overflow checks, which wraps; overflow tells whether the  *)
(* exact result is out of the range of i32, where a build with overflow    *)
(* checks panics.                                                          *)
AddI32(a, b) ==
    [overflow |-> \/ (b > 0 /\ a > I32_MAX - b)
                  \/ (b < 0 /\ a < I32_MIN - b),
     v |-> FromI32Bytes(WrappingAdd(I32Bytes(a), I32Bytes(b)))]

SubI32(a, b) ==
    [overflow |-> \/ (b < 0 /\ a > I32_MAX + b)
                  \/ (b > 0 /\ a < I32_MIN + b),
     v |-> FromI32Bytes(WrappingAdd(I32Bytes(a), WrappingNeg(I32Bytes(b))))]

MulI32(a, b) ==
    [overflow |-> /\ a \notin { 0, 1 }
                  /\ b \notin { 0, 1 }
                  /\ \/ a = I32_MIN
                     \/ b = I32_MIN
                     \/ (IF a < 0 THEN 0 - a ELSE a)
                            > I32_MAX \div (IF b < 0 THEN 0 - b ELSE b),
     v |-> FromI32Bytes(WrappingMul(I32Bytes(a), I32Bytes(b)))]

RECURSIVE ModFrom(_, _, _, _)
ModFrom(a, m, i, r) ==
    IF i = 0 THEN r ELSE ModFrom(a, m, i - 1, (r * 256 + a[i]) % m)

(* `%` on the word read as an unsigned integer *)
UnsignedMod(a, m) == ModFrom(a, m, Len(a), 0)

----------------------------------------------------------------------------
(* f32 values that are whole numbers.  An f32 has a 24-bit significand:    *)
(* a whole number below 2^24 in magnitude is exact, a larger one is        *)
(* rounded to the nearest multiple of its unit in the last place, ties to  *)
(* the even multiple.                                                      *)

F32_SIGNIFICAND == 2^24

RECURSIVE Ulp(_)
Ulp(n) == IF n < F32_SIGNIFICAND THEN 1 ELSE 2 * Ulp(n \div 2)

Magnitude(n) == IF n < 0 THEN 0 - n ELSE n

RoundF32(n) ==
    LET m == Magnitude(n)
        u == Ulp(m)
        q == m \div u
        r == m % u
        rounded == IF 2 * r < u THEN q * u
                   ELSE IF 2 * r > u THEN (q + 1) * u
                   ELSE (q + (q % 2)) * u
    IN  IF n < 0 THEN 0 - rounded ELSE rounded

RECURSIVE Exponent(_)
Exponent(q) == IF q < 2 THEN 0 ELSE 1 + Exponent(q \div 2)

(* (n / d).floor() for an f32 n that is a whole number and a whole d > 0:  *)
(* the quotient is rounded to 24 bits before the floor is taken, so a      *)
(* quotient within half a step of a whole number becomes that number.      *)
FloorOfQuotientF32(n, d) ==
    LET m == Magnitude(n)
        q == m \div d
        r == m % d
        half_steps == 2^(24 - Exponent(q))
        rounds_up == q > 0 /\ r > 0 /\ d - r <= d \div half_steps
        rounds_down == q > 0 /\ r > 0 /\ r <= d \div half_steps
    IN  IF n >= 0
        THEN IF rounds_up THEN q + 1 ELSE q
        ELSE IF r = 0 \/ rounds_down THEN 0 - q ELSE 0 - (q + 1)

----------------------------------------------------------------------------
(* Chunk coordinates                                                       *)

ChunkCoordinate(cx, cz) == [x |-> cx, z |-> cz]

(* A faulty variant of from_world_pos: the quotient is truncated towards   *)
(* zero (as i32 without floor).                                            *)
from_world_pos_Truncating(pos) ==
    ChunkCoordinate(
        IF pos.x < 0 THEN 0 - ((0 - pos.x) \div CHUNK_SIZE) ELSE pos.x \div CHUNK_SIZE,
        IF pos.z < 0 THEN 0 - ((0 - pos.z) \div CHUNK_SIZE) ELSE pos.z \div CHUNK_SIZE)

from_world_pos(pos) ==
    ChunkCoordinate(FloorOfQuotientF32(pos.x, CHUNK_SIZE),
                    FloorOfQuotientF32(pos.z, CHUNK_SIZE))

world_position(coord) ==
    [x |-> RoundF32(RoundF32(coord.x) * CHUNK_SIZE),
     y |-> 0,
     z |-> RoundF32(RoundF32(coord.z) * CHUNK_SIZE)]

SquaredDistance(a, b) ==
    (a.x - b.x) * (a.x - b.x) + (a.z - b.z) * (a.z - b.z)

(* The player is spawned, and put back after a crash or a restart, at      *)
(* (0, 500, 0).                                                            *)
SpawnPoint == [x |-> 0, z |-> 0]

(* The eight chunks around a chunk *)
Neighbours(coord) ==
    { ChunkCoordinate(coord.x + dx, coord.z + dz) : dx \in -1..1, dz \in -1..1 }
        \ { coord }

(* Keys a scan can touch from any chunk the player can be in. *)
KeyUniverse ==
    { ChunkCoordinate(cx, cz) :
        cx \in (0 - 1 - LOAD_RADIUS_CHUNKS)..(MaxEast + LOAD_RADIUS_CHUNKS),
        cz \in (0 - 1 - LOAD_RADIUS_CHUNKS)..(1 + LOAD_RADIUS_CHUNKS) }

----------------------------------------------------------------------------
(* Terrain.  Heights are in millimetres.  noise::Perlin is an external     *)
(* library; it is modelled as a fixed function of the sample point that    *)
(* varies from metre to metre, with values in -1000..1000 (thousandths).   *)
(* A layer has a wavelength in metres (the inverse of its scale) and an    *)
(* offset in periods.                                                      *)

SUBDIVISIONS == 20

Perlin(world_x, world_z, wavelength, offset) ==
    LET px == (world_x + offset * wavelength) % (wavelength * 8)
        pz == (world_z + offset * wavelength) % (wavelength * 8)
    IN  ((px * 31 + pz * 17 + (px \div wavelength) * 389) % 2001) - 1000

Clamp(v, lo, hi) == IF v < lo THEN lo ELSE IF v > hi THEN hi ELSE v

get_terrain_height(world_x, world_z) ==
    LET height_large == Perlin(world_x, world_z, 500, 0) * 100
        height_medium == Perlin(world_x, world_z, 100, 100) * 15
        height_small == Perlin(world_x, world_z, 20, 200) * 3
    IN  Clamp(height_large + height_medium + height_small, 0 - 50000, 150000)

(* (i / SUBDIVISIONS) * CHUNK_SIZE - CHUNK_SIZE / 2: a multiple of 50 *)
LocalCoordinate(i) ==
    RoundF32((i * CHUNK_SIZE) \div SUBDIVISIONS) - CHUNK_SIZE \div 2

(* The vertices of create_terrain_mesh: positions are local to the chunk,  *)
(* heights are sampled at the world point of the vertex.                   *)
create_terrain_mesh(coord) ==
    LET chunk_world_x == RoundF32(coord.x * CHUNK_SIZE)
        chunk_world_z == RoundF32(coord.z * CHUNK_SIZE)
    IN  [x \in 0..SUBDIVISIONS, z \in 0..SUBDIVISIONS |->
            LET local_x == LocalCoordinate(x)
                local_z == LocalCoordinate(z)
                world_x == RoundF32(chunk_world_x + local_x)
                world_z == RoundF32(chunk_world_z + local_z)
            IN  [local_x |-> local_x,
                 height |-> get_terrain_height(world_x, world_z),
                 local_z |-> local_z]]

(* Where a vertex of the mesh of a chunk is in the world: the ground is    *)
(* a child of the chunk root, at the root's translation.                   *)
WorldVertex(coord, vertex) ==
    [x |-> RoundF32(RoundF32(coord.x * CHUNK_SIZE) + vertex.local_x),
     y |-> vertex.height,
     z |-> RoundF32(RoundF32(coord.z * CHUNK_SIZE) + vertex.local_z)]

(* The last key whose origin is below 2^27 metres: from the next on the    *)
(* f32 sum of origin and local coordinate is rounded to 16 metres.         *)
FarKey == (8 * F32_SIGNIFICAND) \div CHUNK_SIZE

----------------------------------------------------------------------------
(* Key hashes                                                              *)

VillageHash(coord) ==
    Xor(WrappingMul(I32Bytes(coord.x), I32Bytes(73856093)),
        WrappingMul(I32Bytes(coord.z), I32Bytes(19349663)))

(* A faulty variant of should_spawn_village: the threshold is included *)
should_spawn_village_Inclusive(coord) == UnsignedMod(VillageHash(coord), 100) <= 15

should_spawn_village(coord) == UnsignedMod(VillageHash(coord), 100) < 15

PatrolHash(coord) ==
    Xor(WrappingMul(I32Bytes(coord.x), I32Bytes(1234567)),
        WrappingMul(I32Bytes(coord.z), I32Bytes(7654321)))

should_spawn_patrol(coord) == UnsignedMod(PatrolHash(coord), 100) < 15

----------------------------------------------------------------------------
(* Seeded generator.  rand's StdRng is an external library; it is modelled *)
(* as a small deterministic generator: the same seed gives the same        *)
(* sequence, and gen_range(lo..hi) returns a value v with lo <= v < hi.    *)
(* A generator value is its state; a draw is [v, rng] with the new state.  *)

seed_from_u64(seed) == UnsignedMod(seed, 10007)

next_u32(rng) == (rng * 421 + 1663) % 10007

gen_range(rng, lo, hi) ==
    [v |-> lo + (next_u32(rng) % (hi - lo)), rng |-> next_u32(rng)]

(* A faulty variant of gen_range(lo..=hi): the result can be hi + 1. *)
gen_range_inclusive_Beyond(rng, lo, hi) == gen_range(rng, lo, hi + 2)

gen_range_inclusive(rng, lo, hi) == gen_range(rng, lo, hi + 1)

(* Lengths are in metres, scales in tenths, angles in degrees, the size    *)
(* roll of a meteor in thousandths.                                        *)
HalfChunk == CHUNK_SIZE \div 2

TreeSeed(coord) ==
    Xor(WrappingMul(I64Bytes(coord.x), I64Bytes(73856093)),
        WrappingMul(I64Bytes(coord.z), I64Bytes(19349663)))

RockSeed(coord) ==
    Xor(WrappingMul(I64Bytes(coord.x), I64Bytes(19349663)),
        WrappingMul(I64Bytes(coord.z), I64Bytes(73856093)))

MeteorSeed(coord) ==
    Xor(WrappingMul(I64Bytes(coord.x), I64Bytes(1234567)),
        WrappingMul(I64Bytes(coord.z), I64Bytes(7654321)))

(* A faulty variant of the exclusion test: the village test is left out. *)
InVillageCore_EveryChunk(coord, x, z) == x * x + z * z < 400 * 400

(* The exclusion test of the tree and rock loops. *)
InVillageCore(coord, x, z) ==
    should_spawn_village(coord) /\ x * x + z * z < 400 * 400

RECURSIVE TreeLoop(_, _, _)
TreeLoop(coord, remaining, rng0) ==
    IF remaining = 0 THEN << >>
    ELSE LET x == gen_range(rng0, 0 - HalfChunk, HalfChunk)
             z == gen_range(x.rng, 0 - HalfChunk, HalfChunk)
         IN  IF InVillageCore(coord, x.v, z.v)
             THEN TreeLoop(coord, remaining - 1, z.rng)
             ELSE LET model_index == gen_range(z.rng, 0, 5)
                      scale == gen_range(model_index.rng, 30, 60)
                      rotation == gen_range(scale.rng, 0, 360)
                  IN  << [kind |-> "tree", x |-> x.v, z |-> z.v,
                          model |-> model_index.v, scale |-> scale.v,
                          rotation |-> rotation.v] >>
                      \o TreeLoop(coord, remaining - 1, rotation.rng)

(* Placement list of spawn_trees_in_chunk *)
spawn_trees_in_chunk(coord) ==
    LET tree_count == gen_range_inclusive(seed_from_u64(TreeSeed(coord)),
                                          TREES_PER_CHUNK_MIN, TREES_PER_CHUNK_MAX)
    IN  TreeLoop(coord, tree_count.v, tree_count.rng)

RECURSIVE RockLoop(_, _, _)
RockLoop(coord, remaining, rng0) ==
    IF remaining = 0 THEN << >>
    ELSE LET x == gen_range(rng0, 0 - HalfChunk, HalfChunk)
             z == gen_range(x.rng, 0 - HalfChunk, HalfChunk)
         IN  IF InVillageCore(coord, x.v, z.v)
             THEN RockLoop(coord, remaining - 1, z.rng)
             ELSE LET scale == gen_range(z.rng, 8, 15)
                      rotation == gen_range(scale.rng, 0, 360)
                  IN  << [kind |-> "rock", x |-> x.v, z |-> z.v,
                          scale |-> scale.v, rotation |-> rotation.v] >>
                      \o RockLoop(coord, remaining - 1, rotation.rng)

(* Placement list of spawn_rocks_in_chunk *)
spawn_rocks_in_chunk(coord) ==
    LET rock_count == gen_range_inclusive(seed_from_u64(RockSeed(coord)), 2, 4)
    IN  RockLoop(coord, rock_count.v, rock_count.rng)

(* The candidates of the tree loop and of the rock loop, one record per    *)
(* iteration: whether the candidate was placed, and the values the         *)
(* iteration drew from the generator, in the order of the draws.           *)
RECURSIVE TreeCandidates(_, _, _)
TreeCandidates(coord, remaining, rng0) ==
    IF remaining = 0 THEN << >>
    ELSE LET x == gen_range(rng0, 0 - HalfChunk, HalfChunk)
             z == gen_range(x.rng, 0 - HalfChunk, HalfChunk)
         IN  IF InVillageCore(coord, x.v, z.v)
             THEN << [placed |-> FALSE, drawn |-> << x.v, z.v >>] >>
                  \o TreeCandidates(coord, remaining - 1, z.rng)
             ELSE LET model_index == gen_range(z.rng, 0, 5)
                      scale == gen_range(model_index.rng, 30, 60)
                      rotation == gen_range(scale.rng, 0, 360)
                  IN  << [placed |-> TRUE,
                          drawn |-> << x.v, z.v, model_index.v, scale.v,
                                       rotation.v >>] >>
                      \o TreeCandidates(coord, remaining - 1, rotation.rng)

RECURSIVE RockCandidates(_, _, _)
RockCandidates(coord, remaining, rng0) ==
    IF remaining = 0 THEN << >>
    ELSE LET x == gen_range(rng0, 0 - HalfChunk, HalfChunk)
             z == gen_range(x.rng, 0 - HalfChunk, HalfChunk)
         IN  IF InVillageCore(coord, x.v, z.v)
             THEN << [placed |-> FALSE, drawn |-> << x.v, z.v >>] >>
                  \o RockCandidates(coord, remaining - 1, z.rng)
             ELSE LET scale == gen_range(z.rng, 8, 15)
                      rotation == gen_range(scale.rng, 0, 360)
                  IN  << [placed |-> TRUE,
                          drawn |-> << x.v, z.v, scale.v, rotation.v >>] >>
                      \o RockCandidates(coord, remaining - 1, rotation.rng)

RECURSIVE MeteorLoop(_, _)
MeteorLoop(remaining, rng0) ==
    IF remaining = 0 THEN << >>
    ELSE LET x == gen_range(rng0, 0 - HalfChunk, HalfChunk)
             y == gen_range(x.rng, 200, 4000)
             z == gen_range(y.rng, 0 - HalfChunk, HalfChunk)
             rx == gen_range(z.rng, 0, 360)
             ry == gen_range(rx.rng, 0, 360)
             rz == gen_range(ry.rng, 0, 360)
             scale_roll == gen_range(rz.rng, 0, 1000)
             scale == IF scale_roll.v > 900
                      THEN gen_range(scale_roll.rng, 120, 250)
                      ELSE gen_range(scale_roll.rng, 20, 80)
             model == gen_range(scale.rng, 0, 3)
         IN  << [kind |-> "meteor", x |-> x.v, y |-> y.v, z |-> z.v,
                 rotation |-> << rx.v, ry.v, rz.v >>, scale |-> scale.v,
                 model |-> model.v] >>
             \o MeteorLoop(remaining - 1, model.rng)

(* Placement list of spawn_meteors_in_chunk *)
spawn_meteors_in_chunk(coord) ==
    MeteorLoop(METEOR_COUNT, seed_from_u64(MeteorSeed(coord)))

(* A function as an explicit table, evaluated once and not at every        *)
(* application.                                                            *)
Tabulate(f) == f @@ << >>

----------------------------------------------------------------------------
(* Entities.  A kind names one spawn site of the code; Components lists    *)
(* the components of its bundle that a query of the model filters on, and  *)
(* Parent the kind it is spawned under (with_children), if any.            *)

Kinds ==
    { "root", "ground", "tree", "rock", "meteor",
      "wall", "roof", "roof_cube", "tower",
      "drone", "drone_scene", "drone_cube",
      "swarm_drone", "swarm_scene", "swarm_cube" }

(* A faulty variant of Components: the walls of a village are spawned       *)
(* without their ChunkCoordinate.                                          *)
Components_UntaggedWalls(kind) ==
    CASE kind = "root" -> { "ChunkEntity", "ChunkCoordinate" }
      [] kind = "ground" -> { "ChunkEntity", "ChunkCoordinate", "Mesh3d", "Collider" }
      [] kind = "tree" -> { "Tree", "ChunkEntity", "ChunkCoordinate", "Mesh3d" }
      [] kind = "rock" -> { "ChunkEntity", "ChunkCoordinate", "Mesh3d", "Collider" }
      [] kind = "meteor" -> { "Meteor", "ChunkEntity", "Collider" }
      [] kind = "wall" -> { "VillageBuilding", "ChunkEntity", "Mesh3d", "Collider" }
      [] kind = "tower" ->
            { "VillageBuilding", "ChunkEntity", "ChunkCoordinate", "Mesh3d", "Collider" }
      [] kind = "roof" -> { "VillageBuilding", "ChunkEntity", "ChunkCoordinate" }
      [] kind \in { "drone", "swarm_drone" } -> { "Drone", "Collider" }
      [] kind \in { "roof_cube", "drone_cube", "swarm_cube" } -> { "Mesh3d" }
      [] OTHER -> {}

Components(kind) ==
    CASE kind = "root" -> { "ChunkEntity", "ChunkCoordinate" }
      [] kind = "ground" -> { "ChunkEntity", "ChunkCoordinate", "Mesh3d", "Collider" }
      [] kind = "tree" -> { "Tree", "ChunkEntity", "ChunkCoordinate", "Mesh3d" }
      [] kind = "rock" -> { "ChunkEntity", "ChunkCoordinate", "Mesh3d", "Collider" }
      [] kind = "meteor" -> { "Meteor", "ChunkEntity", "Collider" }
      [] kind \in { "wall", "tower" } ->
            { "VillageBuilding", "ChunkEntity", "ChunkCoordinate", "Mesh3d", "Collider" }
      [] kind = "roof" -> { "VillageBuilding", "ChunkEntity", "ChunkCoordinate" }
      [] kind \in { "drone", "swarm_drone" } -> { "Drone", "Collider" }
      [] kind \in { "roof_cube", "drone_cube", "swarm_cube" } -> { "Mesh3d" }
      [] OTHER -> {}

Parent(kind) ==
    CASE kind \in { "ground", "tree", "rock", "meteor" } -> "root"
      [] kind = "roof_cube" -> "roof"
      [] kind \in { "drone_scene", "drone_cube" } -> "drone"
      [] kind \in { "swarm_scene", "swarm_cube" } -> "swarm_drone"
      [] OTHER -> "none"

(* A kind and the kinds above it in the hierarchy *)
RECURSIVE Lineage(_)
Lineage(kind) ==
    IF kind = "none" THEN {} ELSE { kind } \cup Lineage(Parent(kind))

(* despawn_recursive of the entities of some kinds takes their descendants *)
(* with them.                                                              *)
despawn_recursive(kinds) ==
    { kind \in Kinds : Lineage(kind) \cap kinds # {} }

(* Kinds matched by Query<(Entity, &ChunkCoordinate), With<ChunkEntity>>   *)
(* and by Query<Entity, With<Drone>>                                       *)
ChunkQueryKinds ==
    { kind \in Kinds : { "ChunkEntity", "ChunkCoordinate" } \subseteq Components(kind) }

DroneQueryKinds ==
    { kind \in Kinds : "Drone" \in Components(kind) }

(* Entity counts per kind; a key without live entities is not in the world *)
NoEntities == [kind \in Kinds |-> 0]

Count(counts, kind) == IF kind \in DOMAIN counts THEN counts[kind] ELSE 0

Sum(a, b) == [kind \in Kinds |-> Count(a, kind) + Count(b, kind)]

EntitiesAt(w, coord) == IF coord \in DOMAIN w THEN w[coord] ELSE NoEntities

----------------------------------------------------------------------------
(* Chunk construction                                                      *)

(* drone.rs spawn_drone: the drone and its two model children.  unit is    *)
(* "drone" for a patrol drone and "swarm_drone" for one of the swarm.      *)
spawn_drone(unit, copies) ==
    IF unit = "drone"
    THEN [drone |-> copies, drone_scene |-> copies, drone_cube |-> copies]
    ELSE [swarm_drone |-> copies, swarm_scene |-> copies, swarm_cube |-> copies]

spawn_initial_drone_swarm ==
    Tabulate(Sum(spawn_drone("swarm_drone", SWARM_SIZE), NoEntities))

spawn_village_in_chunk(coord) ==
    [wall |-> NUM_BUILDINGS, roof |-> NUM_BUILDINGS, roof_cube |-> NUM_BUILDINGS,
     tower |-> 1]

(* spawn_chunk returns the root entity and queues the spawns of the chunk  *)
spawn_chunk(coord) ==
    LET terrain == [root |-> 1, ground |-> 1]
        content == [tree |-> Len(spawn_trees_in_chunk(coord)),
                    rock |-> Len(spawn_rocks_in_chunk(coord)),
                    meteor |-> Len(spawn_meteors_in_chunk(coord))]
        patrol == IF should_spawn_patrol(coord) THEN spawn_drone("drone", 1)
                  ELSE NoEntities
        village == IF should_spawn_village(coord) THEN spawn_village_in_chunk(coord)
                   ELSE NoEntities
    IN  [entity |-> [kind |-> "root", coord |-> coord],
         spawned |-> Tabulate(Sum(Sum(terrain, content), Sum(patrol, village)))]

(* What spawn_chunk does for every key a scan can touch *)
SpawnedChunk == Tabulate([coord \in KeyUniverse |-> spawn_chunk(coord)])

----------------------------------------------------------------------------
(* State                                                                   *)

VARIABLES
    player_pos,         \* translation of the player (x, z)
    loaded_chunks,      \* ChunkManager.loaded_chunks: key -> root entity
    last_player_chunk,  \* ChunkManager.last_player_chunk
    world,              \* live entities: key -> kind -> number
    commands,           \* deferred commands of the running frame
    pc,                 \* position in the frame
    route,              \* the chunks the pilot keeps the plane in
    visited,            \* the chunks manage_chunks has scanned from
    scans,              \* the number of scans, counted up to MaxScansCounted
    scan_steps,         \* the keys of loaded_chunks at the steps of the last scan
    probe               \* a key and what the key hashes make of it

vars ==
    << player_pos, loaded_chunks, last_player_chunk, world, commands, pc,
       route, visited, scans, scan_steps, probe >>

NoCommands == [despawn |-> {}, spawn |-> << >>]

(* Queued spawns of two systems of one frame *)
Queue(a, b) ==
    [coord \in DOMAIN a \cup DOMAIN b |->
        IF coord \notin DOMAIN a THEN b[coord]
        ELSE IF coord \notin DOMAIN b THEN a[coord]
        ELSE Sum(a[coord], b[coord])]

(* A faulty variant of ToUnload: distances are taken from the chunk of the *)
(* previous scan.                                                          *)
ToUnload_StaleCentre(player_chunk) ==
    UNION { { [kind |-> kind, coord |-> coord] :
                kind \in { q \in ChunkQueryKinds : world[coord][q] > 0 } } :
            coord \in { c \in DOMAIN world :
                          SquaredDistance(last_player_chunk, c)
                              > UNLOAD_RADIUS_CHUNKS * UNLOAD_RADIUS_CHUNKS } }

(* manage_chunks, step 1: the entities of the chunk query that are too far *)
ToUnload(player_chunk) ==
    UNION { { [kind |-> kind, coord |-> coord] :
                kind \in { q \in ChunkQueryKinds : world[coord][q] > 0 } } :
            coord \in { c \in DOMAIN world :
                          SquaredDistance(player_chunk, c)
                              > UNLOAD_RADIUS_CHUNKS * UNLOAD_RADIUS_CHUNKS } }

(* The keys of the offset loop of manage_chunks *)
Offsets(player_chunk) ==
    { ChunkCoordinate(player_chunk.x + x_offset, player_chunk.z + z_offset) :
        x_offset \in (0 - LOAD_RADIUS_CHUNKS)..LOAD_RADIUS_CHUNKS,
        z_offset \in (0 - LOAD_RADIUS_CHUNKS)..LOAD_RADIUS_CHUNKS }

(* Faulty variants of ToLoad: one without the radius test, one without the *)
(* contains_key test.                                                      *)
ToLoad_NoRadiusTest(player_chunk, kept) ==
    { chunk_coord \in Offsets(player_chunk) : chunk_coord \notin kept }

ToLoad_NoContainsKey(player_chunk, kept) ==
    { chunk_coord \in Offsets(player_chunk) :
        SquaredDistance(chunk_coord, player_chunk)
            <= LOAD_RADIUS_CHUNKS * LOAD_RADIUS_CHUNKS }

(* manage_chunks, step 2: the keys of the offset loop that are spawned *)
ToLoad(player_chunk, kept) ==
    { chunk_coord \in Offsets(player_chunk) :
        /\ chunk_coord \notin kept
        /\ SquaredDistance(chunk_coord, player_chunk)
              <= LOAD_RADIUS_CHUNKS * LOAD_RADIUS_CHUNKS }

(* The world once the despawn commands are applied: at the keys that are   *)
(* hit, the targets and their descendants are gone.                        *)
DespawnedAt(w, targets, hit) ==
    [coord \in DOMAIN w |->
        IF coord \notin hit THEN w[coord]
        ELSE [kind \in Kinds |->
                IF \E above \in Lineage(kind) :
                      [kind |-> above, coord |-> coord] \in targets
                THEN 0 ELSE w[coord][kind]]]

Populated(w) == [coord \in { c \in DOMAIN w : w[c] # NoEntities } |-> w[coord]]

(* A faulty variant of Despawned: the despawn commands have no effect *)
Despawned_Nothing(w, targets) == Populated(w)

Despawned(w, targets) ==
    Populated(Tabulate(DespawnedAt(w, targets, { t.coord : t \in targets })))

(* A faulty variant of UpToDate: the test for an empty map is left out.    *)
(* A faulty variant of ScanSteps: the load loop runs before the removals *)
ScanSteps_LoadFirst(before, unloaded, to_load) ==
    << before, before \cup to_load, (before \cup to_load) \ unloaded >>

(* The keys of loaded_chunks at the steps of a scan: on entry, after the   *)
(* removals of the unload step, after the insertions of the load step.     *)
ScanSteps(before, unloaded, to_load) ==
    << before, before \ unloaded, (before \ unloaded) \cup to_load >>

UpToDate_NoFirstRun(player_chunk) == player_chunk = last_player_chunk

(* A faulty variant of UpToDate: no early return, every tick scans *)
UpToDate_EveryTick(player_chunk) == FALSE

(* The early return of manage_chunks: the player is still in the chunk of  *)
(* the last scan and something is loaded.                                  *)
UpToDate(player_chunk) ==
    player_chunk = last_player_chunk /\ DOMAIN loaded_chunks # {}

(* The state after App construction and spawn_player, for a pilot who      *)
(* stays in the chunks of airspace.                                        *)
Startup(airspace) ==
    /\ player_pos = SpawnPoint
    /\ loaded_chunks = << >>
    /\ last_player_chunk = ChunkCoordinate(0, 0)
    /\ world = << >>
    /\ commands = NoCommands
    /\ pc = "Input"
    /\ route = airspace
    /\ visited = {}
    /\ scans = 0
    /\ scan_steps = << >>

(* A flight east of the spawn point and back *)
Init ==
    /\ Startup({ ChunkCoordinate(cx, 0) : cx \in 0..MaxEast })
    /\ probe = << >>

(* The flight model moves the player; a stride takes the plane into one of *)
(* the eight chunks around it.                                             *)
Fly ==
    /\ pc = "Input"
    /\ \E dx \in { 0 - Stride, 0, Stride }, dz \in { 0 - Stride, 0, Stride } :
          LET target == [x |-> player_pos.x + dx, z |-> player_pos.z + dz]
          IN  /\ target # player_pos
              /\ from_world_pos(target) \in route
              /\ player_pos' = target
    /\ pc' = "Update"
    /\ UNCHANGED << loaded_chunks, last_player_chunk, world, commands, route, visited, scans, scan_steps, probe >>

(* check_ground_collision puts a crashed player back at the spawn point *)
CrashReset ==
    /\ pc = "Input"
    /\ player_pos' = SpawnPoint
    /\ pc' = "Update"
    /\ UNCHANGED << loaded_chunks, last_player_chunk, world, commands, route, visited, scans, scan_steps, probe >>

(* handle_restart (F5): all drones are despawned, the player is put back   *)
(* at the spawn point and a fresh swarm is spawned.                        *)
HandleRestart ==
    /\ pc = "Input"
    /\ player_pos' = SpawnPoint
    /\ commands' =
          [despawn |-> commands.despawn \cup
                         { [kind |-> kind, coord |-> coord] :
                             kind \in DroneQueryKinds, coord \in DOMAIN world },
           spawn |-> Queue(commands.spawn,
                           from_world_pos(SpawnPoint) :> spawn_initial_drone_swarm)]
    /\ pc' = "Update"
    /\ UNCHANGED << loaded_chunks, last_player_chunk, world, route, visited, scans, scan_steps, probe >>

ManageChunks ==
    /\ pc = "Update"
    /\ pc' = "ApplyDeferred"
    /\ \E player_chunk \in { from_world_pos(player_pos) } :
          IF UpToDate(player_chunk)
          THEN /\ scan_steps' = << >>
               /\ UNCHANGED << loaded_chunks, last_player_chunk, commands, visited, scans >>
          ELSE \E to_unload \in { ToUnload(player_chunk) } :
               \E kept \in { DOMAIN loaded_chunks \ { e.coord : e \in to_unload } } :
               \E to_load \in { ToLoad(player_chunk, kept) } :
                    /\ { coord \in to_load :
                           /\ SpawnedChunk[coord].spawned["drone"] > 0
                           /\ EntitiesAt(world, coord)["drone"] >= MaxPatrolCopies }
                         = {}
                    /\ last_player_chunk' = player_chunk
                    /\ loaded_chunks' =
                          [coord \in kept \cup to_load |->
                              IF coord \in to_load THEN SpawnedChunk[coord].entity
                              ELSE loaded_chunks[coord]]
                    /\ commands' =
                          [despawn |-> commands.despawn \cup to_unload,
                           spawn |-> Queue(commands.spawn,
                                           [coord \in to_load |->
                                               SpawnedChunk[coord].spawned])]
                    /\ visited' = visited \cup { player_chunk }
                    /\ scans' = IF scans < MaxScansCounted THEN scans + 1 ELSE scans
                    /\ scan_steps' = ScanSteps(DOMAIN loaded_chunks,
                                               { e.coord : e \in to_unload }, to_load)
    /\ UNCHANGED << player_pos, world, route, probe >>

(* The sync point at the end of the frame applies the queued commands: a   *)
(* despawn names entities that were alive when it was queued.              *)
ApplyDeferred ==
    /\ pc = "ApplyDeferred"
    /\ world' = Queue(Despawned(world, commands.despawn), commands.spawn)
    /\ commands' = NoCommands
    /\ scan_steps' = << >>
    /\ pc' = "Input"
    /\ UNCHANGED << player_pos, loaded_chunks, last_player_chunk, route, visited, scans, probe >>

Next ==
    \/ Fly
    \/ CrashReset
    \/ HandleRestart
    \/ ManageChunks
    \/ ApplyDeferred

Spec == Init /\ [][Next]_vars

(* A pilot who goes back and forth between the spawn chunk and one of the  *)
(* eight chunks around it                                                  *)
InitOscillation ==
    \E partner \in Neighbours(from_world_pos(SpawnPoint)) :
        /\ Startup({ from_world_pos(SpawnPoint), partner })
        /\ probe = << >>

SpecOscillation == InitOscillation /\ [][Next]_vars

(* The decisions spawn_chunk takes from the key alone, for one key: the    *)
(* village hash reduced mod 100, and whether the chunk gets a village.     *)
InitHash ==
    /\ Startup({ from_world_pos(SpawnPoint) })
    /\ probe \in { [coord |-> ChunkCoordinate(cx, cz)] :
                      cx \in (0 - MaxProbe)..MaxProbe,
                      cz \in (0 - MaxProbe)..MaxProbe }

Classify ==
    /\ DOMAIN probe = { "coord" }
    /\ probe' = [coord |-> probe.coord,
                 hash |-> UnsignedMod(VillageHash(probe.coord), 100),
                 village |-> spawn_chunk(probe.coord).spawned["wall"] > 0]
    /\ UNCHANGED << player_pos, loaded_chunks, last_player_chunk, world,
                    commands, pc, route, visited, scans, scan_steps >>

NextHash == Classify

SpecHash == InitHash /\ [][NextHash]_vars

(* Terrain meshes of one chunk and of its neighbours to the east and to    *)
(* the south, and where the vertices of the two shared edges are in the    *)
(* world according to each mesh.                                           *)
MeshKeys ==
    { ChunkCoordinate(cx + base, cz) :
        cx \in (0 - MaxMeshKey)..MaxMeshKey,
        cz \in (0 - MaxMeshKey)..MaxMeshKey,
        base \in { 0, FarKey } }

InitTerrain ==
    /\ Startup({ from_world_pos(SpawnPoint) })
    /\ probe \in { [mesh_of |-> coord] : coord \in MeshKeys }

BuildMeshes ==
    /\ DOMAIN probe = { "mesh_of" }
    /\ \E coord \in { probe.mesh_of } :
       \E east \in { ChunkCoordinate(coord.x + 1, coord.z) } :
       \E south \in { ChunkCoordinate(coord.x, coord.z + 1) } :
       \E own \in { create_terrain_mesh(coord) } :
       \E east_mesh \in { create_terrain_mesh(east) } :
       \E south_mesh \in { create_terrain_mesh(south) } :
          probe' = [mesh_of |-> coord,
                    east_edge |-> [i \in 0..SUBDIVISIONS |->
                        << WorldVertex(coord, own[SUBDIVISIONS, i]),
                           WorldVertex(east, east_mesh[0, i]) >>],
                    south_edge |-> [i \in 0..SUBDIVISIONS |->
                        << WorldVertex(coord, own[i, SUBDIVISIONS]),
                           WorldVertex(south, south_mesh[i, 0]) >>]]
    /\ UNCHANGED << player_pos, loaded_chunks, last_player_chunk, world,
                    commands, pc, route, visited, scans, scan_steps >>

NextTerrain == BuildMeshes

SpecTerrain == InitTerrain /\ [][NextTerrain]_vars


(* World positions and the key from_world_pos gives them *)
SamplePositions ==
    { k * CHUNK_SIZE + d :
        k \in (0 - MaxPosKey)..MaxPosKey, d \in { 0, 1, CHUNK_SIZE - 1 } }

InitPosition ==
    /\ Startup({ from_world_pos(SpawnPoint) })
    /\ probe \in { [pos |-> [x |-> px, z |-> pz]] :
                      px \in SamplePositions, pz \in SamplePositions }

Locate ==
    /\ DOMAIN probe = { "pos" }
    /\ probe' = [pos |-> probe.pos, key |-> from_world_pos(probe.pos)]
    /\ UNCHANGED << player_pos, loaded_chunks, last_player_chunk, world,
                    commands, pc, route, visited, scans, scan_steps >>

NextPosition == Locate

SpecPosition == InitPosition /\ [][NextPosition]_vars

(* The content seeds of two keys: the tree seed of both, and the rock and  *)
(* meteor seeds of the first.                                              *)
SeedKeys ==
    { ChunkCoordinate(cx, cz) :
        cx \in (0 - MaxSeedKey)..MaxSeedKey, cz \in (0 - MaxSeedKey)..MaxSeedKey }

InitSeed ==
    /\ Startup({ from_world_pos(SpawnPoint) })
    /\ probe \in { [first |-> a, second |-> b] : a \in SeedKeys, b \in SeedKeys }

DeriveSeeds ==
    /\ DOMAIN probe = { "first", "second" }
    /\ probe' = [first |-> probe.first,
                 second |-> probe.second,
                 tree |-> TreeSeed(probe.first),
                 tree_of_second |-> TreeSeed(probe.second),
                 rock |-> RockSeed(probe.first),
                 meteor |-> MeteorSeed(probe.first)]
    /\ UNCHANGED << player_pos, loaded_chunks, last_player_chunk, world,
                    commands, pc, route, visited, scans, scan_steps >>

NextSeed == DeriveSeeds

SpecSeed == InitSeed /\ [][NextSeed]_vars

Range(f) == { f[a] : a \in DOMAIN f }

(* Where an object placed at the local (x, z) of a chunk is in the world:  *)
(* it is a child of the chunk root, which is at world_position(coord).     *)
WorldPlace(coord, x, z) ==
    [x |-> RoundF32(world_position(coord).x + x),
     z |-> RoundF32(world_position(coord).z + z)]

(* manage_chunks after a long flight and after a reset.  The state is the  *)
(* key of the player, the key of one loaded chunk, whether the build has   *)
(* overflow checks, and the outcome of the last scan for that chunk.  A    *)
(* flight east or south is scanned chunk by chunk, so that on arrival in   *)
(* a key the chunk the plane just left is loaded; a crash or F5 puts the    *)
(* player back at the spawn point while the chunks of the place it left    *)
(* are still loaded.                                                       *)
DistantKeys ==
    { ChunkCoordinate(cx, cz) :
        cx \in { 1, UNLOAD_RADIUS_CHUNKS, UNLOAD_RADIUS_CHUNKS + 1, 46340, 46341, 65536,
                 I32_MAX - LOAD_RADIUS_CHUNKS, I32_MAX },
        cz \in { 0, UNLOAD_RADIUS_CHUNKS, UNLOAD_RADIUS_CHUNKS + 1, 65536 } }

InitDistant ==
    /\ Startup({ from_world_pos(SpawnPoint) })
    /\ probe \in { [player_chunk |-> from_world_pos(SpawnPoint),
                     chunk_coord |-> from_world_pos(SpawnPoint),
                     overflow_checks |-> checks,
                     scanned |-> << >>] : checks \in BOOLEAN }

Running ==
    /\ "scanned" \in DOMAIN probe
    /\ \A i \in DOMAIN probe.scanned : ~probe.scanned[i].panicked

Arrive ==
    /\ Running
    /\ \E key \in DistantKeys :
          probe' = [probe EXCEPT !.player_chunk = key,
                                 !.chunk_coord = ChunkCoordinate(key.x - 1, key.z),
                                 !.scanned = << >>]
    /\ UNCHANGED << player_pos, loaded_chunks, last_player_chunk, world,
                    commands, pc, route, visited, scans, scan_steps >>

ResetFromAfar ==
    /\ Running
    /\ probe.player_chunk # from_world_pos(SpawnPoint)
    /\ probe' = [probe EXCEPT !.player_chunk = from_world_pos(SpawnPoint),
                              !.scanned = << >>]
    /\ UNCHANGED << player_pos, loaded_chunks, last_player_chunk, world,
                    commands, pc, route, visited, scans, scan_steps >>

(* The arithmetic of one scan for the loaded chunk: the unload test, and   *)
(* the largest keys of the offset loop.                                    *)
ScanArithmetic(player_chunk, chunk_coord) ==
    LET dx == SubI32(player_chunk.x, chunk_coord.x)
        dz == SubI32(player_chunk.z, chunk_coord.z)
        dx_dx == MulI32(dx.v, dx.v)
        dz_dz == MulI32(dz.v, dz.v)
        sum == AddI32(dx_dx.v, dz_dz.v)
        east == AddI32(player_chunk.x, LOAD_RADIUS_CHUNKS)
        south == AddI32(player_chunk.z, LOAD_RADIUS_CHUNKS)
    IN  [overflow |-> \E step \in { dx, dz, dx_dx, dz_dz, sum, east, south } :
                         step.overflow,
         unload |-> sum.v > UNLOAD_RADIUS_CHUNKS * UNLOAD_RADIUS_CHUNKS,
         east |-> east.v,
         south |-> south.v]

ScanDistant ==
    /\ Running
    /\ probe.scanned = << >>
    /\ \E scan \in { ScanArithmetic(probe.player_chunk, probe.chunk_coord) } :
          IF scan.overflow /\ probe.overflow_checks
          THEN probe' = [probe EXCEPT !.scanned = << [panicked |-> TRUE] >>]
          ELSE probe' = [probe EXCEPT
                            !.scanned = << [panicked |-> FALSE,
                                            unloaded |-> scan.unload,
                                            east |-> scan.east,
                                            south |-> scan.south] >>]
    /\ UNCHANGED << player_pos, loaded_chunks, last_player_chunk, world,
                    commands, pc, route, visited, scans, scan_steps >>

NextDistant ==
    \/ Arrive
    \/ ResetFromAfar
    \/ ScanDistant

SpecDistant == InitDistant /\ [][NextDistant]_vars

(* Game state, pause and drone combat.  A frame is the state transition,   *)
(* then the Update schedule: handle_pause_input and the systems that run   *)
(* in Playing only (one step), then the chain of DronePlugin, which has no *)
(* run condition; the commands of a system of the chain are applied before *)
(* the next one runs.  The drone systems read Time, the clock that the     *)
(* pause of Time<Physics> does not stop.  Where a drone is relative to the *)
(* player is a position on a track, and whether it is in range and aligned *)
(* when the weapon system runs is left open; a frame is longer than the    *)
(* cooldown of the gun, which has therefore always finished.               *)
max_missiles == 2

MISSILE_LIFETIME == 10

BULLET_LIFETIME == 5

MISSILE_COOLDOWN == 2

NoDrone == [alive |-> FALSE, track |-> 0, missile_cooldown |-> 0]

NewDrone == [alive |-> TRUE, track |-> 0, missile_cooldown |-> 0]

InitCombat ==
    /\ Startup({ from_world_pos(SpawnPoint) })
    /\ probe = [state |-> "Loading",
                next_state |-> "None",
                physics_paused |-> FALSE,
                frame |-> "StateTransition",
                centre |-> 0,
                drones |-> [i \in 1..MaxDrones |-> NoDrone],
                missiles |-> << >>,
                bullets |-> << >>,
                active_missiles |-> 0]

(* The state transition at the start of a frame; the asset loader asks for *)
(* Spawning when the assets are there, and finish_spawning, run on         *)
(* entering Spawning, asks for Playing.                                    *)
StateTransition ==
    /\ "frame" \in DOMAIN probe
    /\ probe.frame = "StateTransition"
    /\ \/ /\ probe.next_state # "None"
          /\ probe' = [probe EXCEPT
                          !.state = probe.next_state,
                          !.next_state = IF probe.next_state = "Spawning"
                                         THEN "Playing" ELSE "None",
                          !.frame = "Update"]
       \/ /\ probe.next_state = "None"
          /\ \E loaded \in BOOLEAN :
                probe' = [probe EXCEPT
                            !.next_state = IF probe.state = "Loading" /\ loaded
                                           THEN "Spawning" ELSE "None",
                            !.frame = "Update"]
    /\ UNCHANGED << player_pos, loaded_chunks, last_player_chunk, world,
                    commands, pc, route, visited, scans, scan_steps >>

(* A faulty variant of PauseRequest: the key works in every state *)
PauseRequest_EveryState(state, request) ==
    IF state = "Paused"
    THEN [next_state |-> "Playing", physics_paused |-> FALSE]
    ELSE [next_state |-> "Paused", physics_paused |-> TRUE]

(* handle_pause_input when P was just pressed: the request and the         *)
(* physics clock it leaves.                                                *)
PauseRequest(state, request) ==
    IF state = "Playing"
    THEN [next_state |-> "Paused", physics_paused |-> TRUE]
    ELSE IF state = "Paused"
    THEN [next_state |-> "Playing", physics_paused |-> FALSE]
    ELSE request

(* handle_pause_input, and the systems of Update that run in Playing: the  *)
(* player flies on, manage_chunks follows it, a loaded chunk or F5 brings  *)
(* a drone.                                                                *)
UpdateSystems ==
    /\ "frame" \in DOMAIN probe
    /\ probe.frame = "Update"
    /\ \E just_pressed \in BOOLEAN, centre \in { 0, 1 }, arrivals \in SUBSET (1..MaxDrones) :
          LET request == [next_state |-> probe.next_state,
                          physics_paused |-> probe.physics_paused]
              after == IF just_pressed THEN PauseRequest(probe.state, request)
                       ELSE request
              playing == probe.state = "Playing"
          IN  /\ ~playing => centre = probe.centre /\ arrivals = {}
              /\ \A i \in arrivals : ~probe.drones[i].alive
              /\ probe' = [probe EXCEPT
                              !.next_state = after.next_state,
                              !.physics_paused = after.physics_paused,
                              !.centre = centre,
                              !.drones = [i \in 1..MaxDrones |->
                                            IF i \in arrivals THEN NewDrone
                                            ELSE probe.drones[i]],
                              !.frame = "move_drones"]
    /\ UNCHANGED << player_pos, loaded_chunks, last_player_chunk, world,
                    commands, pc, route, visited, scans, scan_steps >>

(* The player is spawned on entering Spawning *)
PlayerExists == probe.state \in { "Spawning", "Playing", "Paused" }

(* move_drones: every drone moves by speed * delta, and one that was       *)
(* beyond the despawn distance before the move is despawned.               *)
move_drones ==
    /\ "frame" \in DOMAIN probe
    /\ probe.frame = "move_drones"
    /\ IF ~PlayerExists
       THEN probe' = [probe EXCEPT !.frame = "drone_weapon_system"]
       ELSE \E heading \in [1..MaxDrones -> { 0 - 1, 1 }] :
              /\ \A i \in 1..MaxDrones :
                    IF probe.drones[i].alive
                    THEN probe.drones[i].track + heading[i] \in 0..MaxTrack
                    ELSE heading[i] = 1
              /\ probe' = [probe EXCEPT
                              !.drones = [i \in 1..MaxDrones |->
                                  IF ~probe.drones[i].alive \/ probe.drones[i].track = MaxTrack
                                  THEN NoDrone
                                  ELSE [probe.drones[i] EXCEPT
                                           !.track = probe.drones[i].track + heading[i]]],
                              !.frame = "drone_weapon_system"]
    /\ UNCHANGED << player_pos, loaded_chunks, last_player_chunk, world,
                    commands, pc, route, visited, scans, scan_steps >>

(* Timer::tick and Timer::finished of a timer that runs once *)
Tick(elapsed, duration) ==
    IF elapsed + FrameSeconds >= duration THEN duration ELSE elapsed + FrameSeconds

(* A faulty variant of SlotFree: one missile more than max_missiles *)
SlotFree_Inclusive(active_missiles) == active_missiles <= max_missiles

SlotFree(active_missiles) == active_missiles < max_missiles

(* The loop of drone_weapon_system from drone i on.  aim[i] tells what the *)
(* range and angle tests of drone i allow: "missile", "gun", "both" or     *)
(* "none".  The result is the drones, the missiles and bullets spawned and *)
(* the counter of the combat director.                                     *)
RECURSIVE WeaponLoop(_, _, _)
WeaponLoop(i, aim, acc) ==
    IF i > MaxDrones THEN acc
    ELSE IF ~acc.drones[i].alive THEN WeaponLoop(i + 1, aim, acc)
    ELSE LET cooldown == Tick(acc.drones[i].missile_cooldown, MISSILE_COOLDOWN)
             fires_missile == /\ aim[i] \in { "missile", "both" }
                              /\ cooldown >= MISSILE_COOLDOWN
                              /\ SlotFree(acc.active_missiles)
             fires_gun == ~fires_missile /\ aim[i] \in { "gun", "both" }
         IN  WeaponLoop(i + 1, aim,
                [drones |-> [acc.drones EXCEPT
                                ![i].missile_cooldown = IF fires_missile THEN 0 ELSE cooldown],
                 missiles |-> IF fires_missile
                              THEN Append(acc.missiles, MISSILE_LIFETIME)
                              ELSE acc.missiles,
                 bullets |-> IF fires_gun
                             THEN Append(acc.bullets, BULLET_LIFETIME)
                             ELSE acc.bullets,
                 active_missiles |-> IF fires_missile THEN acc.active_missiles + 1
                                     ELSE acc.active_missiles])

drone_weapon_system ==
    /\ "frame" \in DOMAIN probe
    /\ probe.frame = "drone_weapon_system"
    /\ IF ~PlayerExists
       THEN probe' = [probe EXCEPT !.frame = "drone_projectile_system"]
       ELSE \E aim \in [1..MaxDrones -> { "missile", "gun", "both", "none" }] :
              /\ \A i \in 1..MaxDrones : ~probe.drones[i].alive => aim[i] = "none"
              /\ \E fired \in { WeaponLoop(1, aim,
                                     [drones |-> probe.drones,
                                      missiles |-> probe.missiles,
                                      bullets |-> probe.bullets,
                                      active_missiles |-> probe.active_missiles]) } :
                    probe' = [probe EXCEPT
                                !.drones = fired.drones,
                                !.missiles = fired.missiles,
                                !.bullets = fired.bullets,
                                !.active_missiles = fired.active_missiles,
                                !.frame = "drone_projectile_system"]
    /\ UNCHANGED << player_pos, loaded_chunks, last_player_chunk, world,
                    commands, pc, route, visited, scans, scan_steps >>

(* remaining_lifetime -= delta, and despawn at 0 or below *)
Aged(lifetimes) ==
    LET StillAlive(remaining) == remaining > 0
    IN  SelectSeq([i \in DOMAIN lifetimes |-> lifetimes[i] - FrameSeconds], StillAlive)

drone_projectile_system ==
    /\ "frame" \in DOMAIN probe
    /\ probe.frame = "drone_projectile_system"
    /\ IF ~PlayerExists
       THEN probe' = [probe EXCEPT !.frame = "missile_cleanup"]
       ELSE probe' = [probe EXCEPT !.missiles = Aged(probe.missiles),
                                   !.bullets = Aged(probe.bullets),
                                   !.frame = "missile_cleanup"]
    /\ UNCHANGED << player_pos, loaded_chunks, last_player_chunk, world,
                    commands, pc, route, visited, scans, scan_steps >>

missile_cleanup ==
    /\ "frame" \in DOMAIN probe
    /\ probe.frame = "missile_cleanup"
    /\ probe' = [probe EXCEPT
                    !.active_missiles = IF Len(probe.missiles) < probe.active_missiles
                                        THEN Len(probe.missiles)
                                        ELSE probe.active_missiles,
                    !.frame = "StateTransition"]
    /\ UNCHANGED << player_pos, loaded_chunks, last_player_chunk, world,
                    commands, pc, route, visited, scans, scan_steps >>

NextCombat ==
    \/ StateTransition
    \/ UpdateSystems
    \/ move_drones
    \/ drone_weapon_system
    \/ drone_projectile_system
    \/ missile_cleanup

SpecCombat == InitCombat /\ [][NextCombat]_vars

(* A key, its world origin, and the key of that origin *)
RoundTripKeys ==
    LET axis == { base + d : base \in { 0, FarKey },
                             d \in (0 - MaxRoundTripKey)..MaxRoundTripKey }
    IN  { ChunkCoordinate(cx, cz) : cx \in axis, cz \in axis }

InitRoundTrip ==
    /\ Startup({ from_world_pos(SpawnPoint) })
    /\ probe \in { [key |-> coord] : coord \in RoundTripKeys }

RoundTrip ==
    /\ DOMAIN probe = { "key" }
    /\ probe' = [key |-> probe.key,
                 origin |-> world_position(probe.key),
                 back |-> from_world_pos(world_position(probe.key))]
    /\ UNCHANGED << player_pos, loaded_chunks, last_player_chunk, world,
                    commands, pc, route, visited, scans, scan_steps >>

NextRoundTrip == RoundTrip

SpecRoundTrip == InitRoundTrip /\ [][NextRoundTrip]_vars

(* The tree loop and the rock loop of one key, iteration by iteration,     *)
(* and the objects the three generators spawn for the key.                 *)
PlacementKeys ==
    { ChunkCoordinate(cx, cz) :
        cx \in (0 - MaxPlacementKey)..MaxPlacementKey,
        cz \in (0 - MaxPlacementKey)..MaxPlacementKey }

InitPlacement ==
    /\ Startup({ from_world_pos(SpawnPoint) })
    /\ probe \in { [placing |-> coord] : coord \in PlacementKeys }

PlaceContent ==
    /\ DOMAIN probe = { "placing" }
    /\ \E tree_count \in { gen_range_inclusive(seed_from_u64(TreeSeed(probe.placing)),
                                TREES_PER_CHUNK_MIN, TREES_PER_CHUNK_MAX) } :
       \E rock_count \in { gen_range_inclusive(seed_from_u64(RockSeed(probe.placing)),
                                2, 4) } :
          probe' = [placing |-> probe.placing,
                    trees |-> TreeCandidates(probe.placing, tree_count.v, tree_count.rng),
                    rocks |-> RockCandidates(probe.placing, rock_count.v, rock_count.rng),
                    spawned_trees |-> spawn_trees_in_chunk(probe.placing),
                    spawned_rocks |-> spawn_rocks_in_chunk(probe.placing),
                    spawned_meteors |-> spawn_meteors_in_chunk(probe.placing),
                    vertices |-> { WorldVertex(probe.placing, vertex) :
                                     vertex \in Range(create_terrain_mesh(probe.placing)) }]
    /\ UNCHANGED << player_pos, loaded_chunks, last_player_chunk, world,
                    commands, pc, route, visited, scans, scan_steps >>

NextPlacement == PlaceContent

SpecPlacement == InitPlacement /\ [][NextPlacement]_vars

(* Tree visibility.  A frame is the Update schedule (the flight model and  *)
(* manage_chunks, whose commands are applied at its end) followed by       *)
(* PostUpdate, where the engine's transform propagation and                *)
(* update_lod_levels both run; the program does not order the two.  A      *)
(* tree is a child of its chunk's root with a local Transform; its         *)
(* translation here is the position in the world that propagation derives  *)
(* from the two (the ground is taken flat at height 0).  It also has the   *)
(* GlobalTransform the engine has computed for it so far (the identity     *)
(* until the first propagation), its Visibility, and for the last pass     *)
(* the value it had before and whether the pass wrote it; age counts the   *)
(* Update schedules it has been through after the one that spawned it (0   *)
(* or 1), and decided tells whether a pass has handled it in this frame.   *)
HIDE_DISTANCE_SQ == 20000 * 20000

Identity == [x |-> 0, y |-> 0, z |-> 0]

(* Vec3::distance_squared in f32 *)
distance_squared(a, b) ==
    LET dx == a.x - b.x
        dy == a.y - b.y
        dz == a.z - b.z
    IN  RoundF32(RoundF32(RoundF32(dx * dx) + RoundF32(dy * dy)) + RoundF32(dz * dz))

LodPlayerPositions ==
    { [x |-> px, y |-> py, z |-> 0] :
        px \in { 0, 19 * CHUNK_SIZE, 25 * CHUNK_SIZE },
        py \in { 500, 20000, 20001 } }

PostUpdateSystems == { "propagate_transforms", "update_lod_levels" }

InitLod ==
    /\ Startup({ from_world_pos(SpawnPoint) })
    /\ probe = [player |-> [x |-> 0, y |-> 500, z |-> 0],
                trees |-> << >>,
                ran |-> PostUpdateSystems]

(* Update: the player moves, chunks out of the unload radius lose their    *)
(* trees, and a newly loaded chunk may bring a tree, under the player or   *)
(* one chunk east of it.                                                   *)
UpdateSchedule ==
    /\ "ran" \in DOMAIN probe
    /\ probe.ran = PostUpdateSystems
    /\ \E target \in LodPlayerPositions, planted \in { << >>, << 0 >>, << CHUNK_SIZE >> } :
          LET InRange(tree) ==
                  SquaredDistance(from_world_pos(tree.translation), from_world_pos(target))
                      <= UNLOAD_RADIUS_CHUNKS * UNLOAD_RADIUS_CHUNKS
              kept == SelectSeq(probe.trees, InRange)
              settled == [i \in DOMAIN kept |->
                            [kept[i] EXCEPT !.was = kept[i].visibility, !.written = FALSE,
                                            !.age = 1, !.decided = FALSE]]
              spawned == [i \in DOMAIN planted |->
                            [translation |-> [x |-> target.x + planted[i], y |-> 0, z |-> 0],
                             global |-> Identity,
                             visibility |-> "Inherited",
                             was |-> "Inherited",
                             written |-> FALSE,
                             age |-> 0,
                             decided |-> FALSE]]
          IN  /\ Len(kept) + Len(planted) <= MaxTrees
              /\ probe' = [player |-> target, trees |-> settled \o spawned, ran |-> {}]
    /\ UNCHANGED << player_pos, loaded_chunks, last_player_chunk, world,
                    commands, pc, route, visited, scans, scan_steps >>

propagate_transforms ==
    /\ "ran" \in DOMAIN probe
    /\ "propagate_transforms" \notin probe.ran
    /\ probe' = [probe EXCEPT
                    !.trees = [i \in DOMAIN probe.trees |->
                                 [probe.trees[i] EXCEPT !.global = probe.trees[i].translation]],
                    !.ran = probe.ran \cup { "propagate_transforms" }]
    /\ UNCHANGED << player_pos, loaded_chunks, last_player_chunk, world,
                    commands, pc, route, visited, scans, scan_steps >>

LodVisibility(dist_sq) ==
    IF dist_sq > HIDE_DISTANCE_SQ THEN "Hidden" ELSE "Inherited"

(* The trees the pass would iterate if it ran in Update, where the spawn   *)
(* commands of this frame's manage_chunks are not applied yet.             *)
tree_query_InUpdate(trees) == { i \in DOMAIN trees : trees[i].age > 0 }

(* The trees the pass iterates: it runs in PostUpdate, after the commands  *)
(* of the Update schedule are applied, so every tree spawned so far.       *)
tree_query(trees) == DOMAIN trees

update_lod_levels ==
    /\ "ran" \in DOMAIN probe
    /\ "update_lod_levels" \notin probe.ran
    /\ probe' = [probe EXCEPT
                    !.trees = [i \in DOMAIN probe.trees |->
                        LET tree == probe.trees[i]
                            wanted == LodVisibility(distance_squared(probe.player, tree.global))
                        IN  IF i \in tree_query(probe.trees)
                            THEN [tree EXCEPT !.was = tree.visibility,
                                              !.written = (tree.visibility # wanted),
                                              !.visibility = wanted,
                                              !.decided = TRUE]
                            ELSE tree],
                    !.ran = probe.ran \cup { "update_lod_levels" }]
    /\ UNCHANGED << player_pos, loaded_chunks, last_player_chunk, world,
                    commands, pc, route, visited, scans, scan_steps >>

NextLod ==
    \/ UpdateSchedule
    \/ propagate_transforms
    \/ update_lod_levels

SpecLod == InitLod /\ [][NextLod]_vars

----------------------------------------------------------------------------
(* Properties                                                              *)

(* The keys at squared lattice distance at most r2 from a key *)
LatticeDisc(centre, r2) ==
    { coord \in KeyUniverse :
        (coord.x - centre.x) * (coord.x - centre.x)
            + (coord.z - centre.z) * (coord.z - centre.z) <= r2 }

Loaded == DOMAIN loaded_chunks

PlayerChunk == from_world_pos(player_pos)

(* C1: from an empty loaded set with the player in key (0,0), the first    *)
(* run of manage_chunks loads exactly the keys (x,z) with x*x + z*z <= 64: *)
(* as long as (0,0) is the only chunk scanned from, the loaded set is that *)
(* discrete circle.                                                        *)
C1_FirstScanLoadsCircle ==
    visited = { ChunkCoordinate(0, 0) } =>
        Loaded = { coord \in { ChunkCoordinate(x, z) : x \in -9..9, z \in -9..9 } :
                     coord.x * coord.x + coord.z * coord.z <= 64 }

(* The first scan has just run: 197 keys are recorded and queued for spawn *)
C1_Witness ==
    /\ pc = "ApplyDeferred"
    /\ visited = { ChunkCoordinate(0, 0) }
    /\ world = << >>
    /\ Cardinality(Loaded) = 197
    /\ DOMAIN commands.spawn = Loaded

(* C2: after every run of manage_chunks, whatever the movements before it  *)
(* (strides, the F5 respawn, the crash reset), every key at squared        *)
(* lattice distance <= 64 from the player's key is in the loaded set.      *)
C2_NearKeysLoaded ==
    pc = "ApplyDeferred" => LatticeDisc(PlayerChunk, 64) \subseteq Loaded

(* A run of manage_chunks in the frame of an F5 respawn from a far chunk,  *)
(* which loads keys around the spawn point again.                          *)
C2_Witness ==
    /\ pc = "ApplyDeferred"
    /\ player_pos = SpawnPoint
    /\ Count(EntitiesAt(commands.spawn, PlayerChunk), "swarm_drone") = SWARM_SIZE
    /\ \E coord \in DOMAIN commands.spawn : commands.spawn[coord]["root"] = 1
    /\ commands.despawn # {}
    /\ Cardinality(visited) > 1

(* The number of lattice points at squared distance <= 144 from a point *)
PointsWithinUnloadRadius ==
    Cardinality({ offset \in { ChunkCoordinate(x, z) : x \in -12..12, z \in -12..12 } :
                    offset.x * offset.x + offset.z * offset.z <= 144 })

(* C3: after every run of manage_chunks every loaded key is at squared     *)
(* lattice distance <= 144 from the player's key, and the number of loaded *)
(* keys never exceeds the number of lattice points within that distance.   *)
C3_LoadedKeysNear ==
    /\ pc = "ApplyDeferred" => Loaded \subseteq LatticeDisc(PlayerChunk, 144)
    /\ Cardinality(Loaded) <= PointsWithinUnloadRadius

(* A run that unloaded some keys and kept one that is outside the load     *)
(* radius, at distance exactly 12.                                         *)
C3_Witness ==
    /\ pc = "ApplyDeferred"
    /\ \E e \in commands.despawn : e.kind = "root"
    /\ \E coord \in Loaded : SquaredDistance(coord, PlayerChunk) = 144

(* C4: in every reachable state there is at most one record and at most    *)
(* one root entity, live or queued, per key: a key that is loaded is not   *)
(* spawned a second time.                                                  *)
C4_OneRootPerKey ==
    /\ \A coord \in DOMAIN world \cup DOMAIN commands.spawn :
          EntitiesAt(world, coord)["root"]
              + EntitiesAt(commands.spawn, coord)["root"] <= 1
    /\ \A coord \in Loaded : loaded_chunks[coord] = [kind |-> "root", coord |-> coord]

(* A key that was loaded, unloaded and is queued for spawn again *)
C4_Witness ==
    /\ pc = "ApplyDeferred"
    /\ \E coord \in DOMAIN commands.spawn :
          /\ commands.spawn[coord]["root"] = 1
          /\ EntitiesAt(world, coord)["drone"] = 1
          /\ EntitiesAt(world, coord)["root"] = 0

(* C5: a player who goes back and forth between two adjacent keys never   *)
(* causes a key to be unloaded, and once manage_chunks has scanned from    *)
(* both keys no scan loads anything: the record stays as it is and no      *)
(* chunk is queued for spawn.                                              *)
C5_NoThrashing ==
    [][ /\ Loaded \subseteq DOMAIN loaded_chunks'
        /\ { e \in commands'.despawn : e.kind \in ChunkQueryKinds } = {}
        /\ route \subseteq visited =>
              /\ loaded_chunks' = loaded_chunks
              /\ \A coord \in DOMAIN commands'.spawn :
                    commands'.spawn[coord]["root"] = 0 ]_vars

(* The third scan of an oscillation has just run: the player is back in a  *)
(* chunk it was scanned from before, and nothing is queued.                *)
C5_Witness ==
    /\ pc = "ApplyDeferred"
    /\ Cardinality(route) = 2
    /\ visited = route
    /\ scans = 3
    /\ last_player_chunk = PlayerChunk
    /\ commands = NoCommands
    /\ Cardinality(Loaded) > 197

(* The kinds spawn_chunk spawns, and those of them that make up the built  *)
(* chunk: all but the patrol drone and its children.                       *)
ChunkSpawnKinds == Kinds \ { "swarm_drone", "swarm_scene", "swarm_cube" }

BuiltKinds == ChunkSpawnKinds \ { "drone", "drone_scene", "drone_cube" }

(* The entities of the kinds of a built chunk among some entities, and     *)
(* what one load of a key spawns of them.                                  *)
BuiltOf(counts) == [kind \in BuiltKinds |-> counts[kind]]

BuiltBySpawn ==
    Tabulate([coord \in KeyUniverse |-> Tabulate(BuiltOf(SpawnedChunk[coord].spawned))])

Absent(coord, kinds) == \A kind \in kinds : EntitiesAt(world, coord)[kind] = 0

(* C6: when a key is unloaded, every object the load step spawned for it   *)
(* (root, terrain, trees, rocks, meteors, village buildings, patrol unit)  *)
(* is destroyed in that tick: at the end of a frame a key that is not      *)
(* loaded has none of them, and a loaded key has no more of any kind than  *)
(* one load spawns.                                                        *)
C6_UnloadDestroysAll ==
    pc = "Input" =>
        \A coord \in DOMAIN world :
            IF coord \in Loaded
            THEN \A kind \in ChunkSpawnKinds :
                    world[coord][kind] <= SpawnedChunk[coord].spawned[kind]
            ELSE Absent(coord, ChunkSpawnKinds)

C10_VillageThreshold ==
    "hash" \in DOMAIN probe =>
        /\ probe.hash \in 0..99
        /\ probe.village <=> probe.hash < 15

(* A key with a negative coordinate whose value is 14, just below the      *)
(* threshold, and which gets a village.                                    *)
C10_Witness ==
    /\ "hash" \in DOMAIN probe
    /\ probe.coord.x < 0
    /\ probe.hash = 14
    /\ probe.village


(* C11: for two laterally adjacent keys, the vertices of the shared edge   *)
(* are at the same world (x, z) in both meshes and have the same           *)
(* elevation in both.                                                      *)
C11_SharedEdgeAgrees ==
    "east_edge" \in DOMAIN probe =>
        \A i \in 0..SUBDIVISIONS :
            /\ probe.east_edge[i][1] = probe.east_edge[i][2]
            /\ probe.south_edge[i][1] = probe.south_edge[i][2]


C13_SeedInjective ==
    "tree" \in DOMAIN probe =>
        (probe.first = probe.second <=> probe.tree = probe.tree_of_second)

(* C14: for every key the tree, rock and meteor generators are seeded      *)
(* with pairwise different seeds.                                          *)
C14_SeedsPairwiseDifferent ==
    "tree" \in DOMAIN probe =>
        /\ probe.tree # probe.rock
        /\ probe.tree # probe.meteor
        /\ probe.rock # probe.meteor


(* C15: in tree and rock placement a discarded candidate consumes the      *)
(* same draws as a placed one: every iteration of a loop draws the same    *)
(* number of values, so the draws before the i-th candidate do not depend  *)
(* on earlier discards.                                                    *)
C15_DiscardDrawsAsPlaced ==
    "trees" \in DOMAIN probe =>
        /\ \A i, j \in DOMAIN probe.trees :
              Len(probe.trees[i].drawn) = Len(probe.trees[j].drawn)
        /\ \A i, j \in DOMAIN probe.rocks :
              Len(probe.rocks[i].drawn) = Len(probe.rocks[j].drawn)


(* C18: manage_chunks scans on a tick exactly when it is the first tick    *)
(* (no scan has been made) or the player's key differs from the key of     *)
(* the previous scan; on every other tick it leaves the loaded set,        *)
(* last_player_chunk and the entities (live and queued) unchanged.         *)
C18_ScanOnlyOnKeyChange ==
    [][(pc = "Update" /\ pc' = "ApplyDeferred") =>
        IF scans = 0 \/ PlayerChunk # last_player_chunk
        THEN /\ scans' = (IF scans < MaxScansCounted THEN scans + 1 ELSE scans)
             /\ last_player_chunk' = PlayerChunk
             /\ PlayerChunk \in visited'
        ELSE /\ scans' = scans
             /\ loaded_chunks' = loaded_chunks
             /\ last_player_chunk' = last_player_chunk
             /\ commands' = commands
             /\ world' = world]_vars

(* The frame after the first scan has been applied: the player is still in *)
(* the spawn chunk and the tick has not scanned again.                     *)
C18_Witness ==
    /\ pc = "ApplyDeferred"
    /\ scans = 1
    /\ visited = { from_world_pos(SpawnPoint) }
    /\ PlayerChunk = last_player_chunk
    /\ player_pos # SpawnPoint
    /\ Loaded # {}
    /\ DOMAIN world # {}
    /\ commands = NoCommands


(* C19: within one scan every removal from the loaded set happens before   *)
(* any insertion, so at no point of a scan, teleports included, does the   *)
(* loaded set hold more keys than there are lattice points within          *)
(* UNLOAD_RADIUS of a key; once the removals are done every key of the     *)
(* loaded set is within UNLOAD_RADIUS of the player's key.                 *)
C19_UnloadBeforeLoad ==
    scan_steps # << >> =>
        /\ scan_steps[2] \subseteq scan_steps[1]
        /\ scan_steps[2] \subseteq scan_steps[3]
        /\ scan_steps[3] = Loaded
        /\ scan_steps[2] \subseteq LatticeDisc(PlayerChunk, 144)
        /\ scan_steps[3] \subseteq LatticeDisc(PlayerChunk, 144)
        /\ \A i \in 1..3 : Cardinality(scan_steps[i]) <= PointsWithinUnloadRadius

(* A scan after a teleport that removed keys and inserted others *)
C19_Witness ==
    /\ scan_steps # << >>
    /\ SquaredDistance(PlayerChunk, ChunkCoordinate(MaxEast, 0)) > 1
    /\ \E coord \in scan_steps[1] : SquaredDistance(coord, PlayerChunk) > 144
    /\ scan_steps[2] # scan_steps[1]
    /\ scan_steps[3] # scan_steps[2]


(* C20: after each run of update_lod_levels every tree is Hidden if and    *)
(* only if its squared distance to the player is strictly greater than     *)
(* 20000 * 20000 and Inherited otherwise, and a value that was already     *)
(* correct has not been written.                                           *)
C20_HiddenIffFar ==
    ("ran" \in DOMAIN probe /\ "update_lod_levels" \in probe.ran) =>
        \A i \in DOMAIN probe.trees :
            LET tree == probe.trees[i]
            IN  /\ tree.visibility \in { "Hidden", "Inherited" }
                /\ tree.visibility = "Hidden" <=>
                      distance_squared(probe.player, tree.translation) > HIDE_DISTANCE_SQ
                /\ tree.written <=> tree.was # tree.visibility


(* C21: in every frame the load step of manage_chunks has taken effect     *)
(* before update_lod_levels runs: once the pass of a frame has run, every  *)
(* tree in the world, those spawned in this frame included, has had its    *)
(* visibility decided by that pass, and no frame begins with a tree the    *)
(* pass of the frame before left out.                                      *)
C21_LoadBeforeLod ==
    "ran" \in DOMAIN probe =>
        /\ "update_lod_levels" \in probe.ran =>
              \A i \in DOMAIN probe.trees : probe.trees[i].decided
        /\ "update_lod_levels" \notin probe.ran =>
              \A i \in DOMAIN probe.trees : ~probe.trees[i].decided

C21_Witness ==
    /\ "ran" \in DOMAIN probe
    /\ "update_lod_levels" \in probe.ran
    /\ \E i \in DOMAIN probe.trees :
          /\ probe.trees[i].age = 0
          /\ probe.trees[i].decided
          /\ probe.trees[i].visibility = "Hidden"
    /\ \E i \in DOMAIN probe.trees : probe.trees[i].age = 1 /\ probe.trees[i].decided


(* C22: in a chunk with a village no tree and no rock is placed at a local *)
(* (x, z) whose squared distance to the chunk centre is below 400 * 400;   *)
(* a candidate inside that radius is skipped and not moved elsewhere, so   *)
(* the objects placed are the candidates outside the radius, in order and  *)
(* where they were drawn.  In a chunk without a village no candidate is    *)
(* skipped.                                                                *)
C22_VillageCoreKeptClear ==
    "spawned_trees" \in DOMAIN probe =>
        LET village == should_spawn_village(probe.placing)
            Outside(candidate) ==
                ~(village /\ candidate.drawn[1] * candidate.drawn[1]
                               + candidate.drawn[2] * candidate.drawn[2] < 400 * 400)
            Position(candidate) == << candidate.drawn[1], candidate.drawn[2] >>
            Place(object) == << object.x, object.z >>
            PlacesOf(objects) == [i \in DOMAIN objects |-> Place(objects[i])]
            Expected(candidates) ==
                LET kept == SelectSeq(candidates, Outside)
                IN  [i \in DOMAIN kept |-> Position(kept[i])]
        IN  /\ PlacesOf(probe.spawned_trees) = Expected(probe.trees)
            /\ PlacesOf(probe.spawned_rocks) = Expected(probe.rocks)
            /\ \A i \in DOMAIN probe.trees : probe.trees[i].placed <=> Outside(probe.trees[i])
            /\ \A i \in DOMAIN probe.rocks : probe.rocks[i].placed <=> Outside(probe.rocks[i])
            /\ village =>
                  \A object \in { probe.spawned_trees[i] : i \in DOMAIN probe.spawned_trees }
                             \cup { probe.spawned_rocks[i] : i \in DOMAIN probe.spawned_rocks } :
                      object.x * object.x + object.z * object.z >= 400 * 400
            /\ ~village =>
                  /\ Len(probe.spawned_trees) = Len(probe.trees)
                  /\ Len(probe.spawned_rocks) = Len(probe.rocks)

C22_Witness ==
    /\ "spawned_trees" \in DOMAIN probe
    /\ should_spawn_village(probe.placing)
    /\ \E i \in DOMAIN probe.trees : ~probe.trees[i].placed
    /\ \E i \in DOMAIN probe.rocks : ~probe.rocks[i].placed
    /\ probe.spawned_trees # << >>


(* C23: for every key the tree loop runs between 5 and 10 times and the    *)
(* rock loop between 2 and 4 times, and exactly 40 meteors are spawned;    *)
(* the trees and the rocks spawned are never more than the candidates and  *)
(* as many as the candidates in a chunk without a village.                 *)
C23_CountsInRange ==
    "spawned_trees" \in DOMAIN probe =>
        /\ Len(probe.trees) \in 5..10
        /\ Len(probe.rocks) \in 2..4
        /\ Len(probe.spawned_meteors) = 40
        /\ Len(probe.spawned_trees) <= Len(probe.trees)
        /\ Len(probe.spawned_rocks) <= Len(probe.rocks)
        /\ ~should_spawn_village(probe.placing) =>
              /\ Len(probe.spawned_trees) = Len(probe.trees)
              /\ Len(probe.spawned_rocks) = Len(probe.rocks)

C23_Witness ==
    /\ "spawned_trees" \in DOMAIN probe
    /\ Len(probe.trees) = 10
    /\ Len(probe.spawned_trees) < Len(probe.trees)
    /\ Len(probe.spawned_meteors) = 40


(* C24: for every key K, world_position(K) is (K.x * 1000, 0, K.z * 1000)  *)
(* and from_world_pos(world_position(K)) = K; key (0,0) has the world      *)
(* origin (0, 0, 0).                                                       *)
C24_RoundTrip ==
    "origin" \in DOMAIN probe =>
        /\ probe.origin = [x |-> probe.key.x * 1000, y |-> 0, z |-> probe.key.z * 1000]
        /\ probe.back = probe.key


(* C25: at the end of every frame, once the deferred commands are applied, *)
(* the keys of loaded_chunks are exactly the coordinates of the live chunk *)
(* roots, each key has one live root and the entity recorded for the key   *)
(* is the root of that key.                                                *)
C25_MapMatchesRoots ==
    pc = "Input" =>
        /\ Loaded = { coord \in DOMAIN world : world[coord]["root"] > 0 }
        /\ \A coord \in Loaded :
              /\ world[coord]["root"] = 1
              /\ loaded_chunks[coord] = [kind |-> "root", coord |-> coord]

(* The end of a frame whose scan unloaded some chunks and loaded others *)
C25_Witness ==
    /\ pc = "Input"
    /\ Loaded # {}
    /\ Loaded = { coord \in DOMAIN world : world[coord]["root"] > 0 }
    /\ \E coord \in visited : LatticeDisc(coord, 64) \ Loaded # {}
    /\ \E coord \in DOMAIN world : world[coord]["root"] = 0


(* C26: every terrain vertex, every tree candidate and every rock          *)
(* candidate generated for a key K is at a world (x, z) that from_world_pos *)
(* maps back to K.                                                         *)
C26_ContentInsideKeySquare ==
    "vertices" \in DOMAIN probe =>
        /\ \A vertex \in probe.vertices : from_world_pos(vertex) = probe.placing
        /\ \A i \in DOMAIN probe.trees :
              from_world_pos(WorldPlace(probe.placing, probe.trees[i].drawn[1],
                                        probe.trees[i].drawn[2])) = probe.placing
        /\ \A i \in DOMAIN probe.rocks :
              from_world_pos(WorldPlace(probe.placing, probe.rocks[i].drawn[1],
                                        probe.rocks[i].drawn[2])) = probe.placing


(* C27: for every key of the player and every loaded key of a run, a reset  *)
(* from an arbitrarily distant place included, the i32 computations of     *)
(* manage_chunks do not overflow: the scan does not panic, the unload test *)
(* decides as the same test in unbounded integers does, and the keys of    *)
(* the offset loop are player_chunk + offset.                              *)
C27_NoOverflow ==
    ("scanned" \in DOMAIN probe /\ probe.scanned # << >>) =>
        LET scan == probe.scanned[1]
            dx == probe.player_chunk.x - probe.chunk_coord.x
            dz == probe.player_chunk.z - probe.chunk_coord.z
            far == \/ Magnitude(dx) > UNLOAD_RADIUS_CHUNKS
                   \/ Magnitude(dz) > UNLOAD_RADIUS_CHUNKS
                   \/ dx * dx + dz * dz > UNLOAD_RADIUS_CHUNKS * UNLOAD_RADIUS_CHUNKS
        IN  /\ ~scan.panicked
            /\ scan.unloaded <=> far
            /\ scan.east > probe.player_chunk.x
            /\ scan.east - probe.player_chunk.x = LOAD_RADIUS_CHUNKS
            /\ scan.south - probe.player_chunk.z = LOAD_RADIUS_CHUNKS


(* The state the game is heading for: the requested one if there is one *)
HeadingFor == IF probe.next_state # "None" THEN probe.next_state ELSE probe.state

(* C28: the pause key only toggles between Playing and Paused, a request   *)
(* for Paused is made in Playing only and a request made in Paused is for  *)
(* Playing, and the physics clock is paused exactly when the state the     *)
(* game is heading for (the requested state if there is one, the current   *)
(* state otherwise) is Paused.                                             *)
C28_ClockFollowsRequest ==
    "state" \in DOMAIN probe =>
        /\ probe.next_state = "Paused" => probe.state = "Playing"
        /\ probe.state = "Paused" => probe.next_state \in { "None", "Playing" }
        /\ probe.state \in { "Loading", "Spawning" } => ~probe.physics_paused
        /\ probe.physics_paused <=> HeadingFor = "Paused"

(* The key was pressed in Paused: Playing is requested, the clock runs *)
C28_Witness ==
    /\ "state" \in DOMAIN probe
    /\ probe.state = "Paused"
    /\ probe.next_state = "Playing"
    /\ ~probe.physics_paused

(* C28 as stated: the physics clock is paused exactly when the current or  *)
(* the requested game state is Paused.                                     *)
C28_PausedIffCurrentOrRequested ==
    "state" \in DOMAIN probe =>
        (probe.physics_paused <=>
            (probe.state = "Paused" \/ probe.next_state = "Paused"))

(* C29: over a step that starts and ends in Paused the loaded region does  *)
(* not change, no drone moves or is despawned, no missile or bullet is     *)
(* fired and no projectile lifetime decreases.                             *)
C29_FrozenWhilePaused ==
    [][("state" \in DOMAIN probe /\ probe.state = "Paused" /\ probe'.state = "Paused") =>
          /\ probe'.centre = probe.centre
          /\ \A i \in 1..MaxDrones :
                /\ probe'.drones[i].alive = probe.drones[i].alive
                /\ probe'.drones[i].track = probe.drones[i].track
          /\ probe'.missiles = probe.missiles
          /\ probe'.bullets = probe.bullets]_vars

(* C30: the counter of the combat director and the number of live         *)
(* missiles never exceed max_missiles (2), however many drones fire in a   *)
(* frame, and after missile_cleanup the counter is the number of live      *)
(* missiles, so the slot of a missile that expired is free again.          *)
C30_MissileSlots ==
    "state" \in DOMAIN probe =>
        /\ probe.active_missiles <= 2
        /\ Len(probe.missiles) <= 2
        /\ Len(probe.missiles) <= probe.active_missiles
        /\ probe.frame = "StateTransition" =>
              probe.active_missiles = Len(probe.missiles)

(* Every drone is there, both slots are taken and a drone fell back on its *)
(* gun in the frame in which an older missile is about to expire.          *)
C30_Witness ==
    /\ "state" \in DOMAIN probe
    /\ probe.frame = "drone_projectile_system"
    /\ \A i \in 1..MaxDrones : probe.drones[i].alive
    /\ probe.active_missiles = 2
    /\ Len(probe.missiles) = 2
    /\ probe.missiles[1] <= FrameSeconds
    /\ probe.bullets # << >>

=============================================================================
